---- MODULE Spec2Model ----
(***************************************************************************)
(* A model of the AIRMET / SIGMET parser (avwx/current/airsigmet.py) and   *)
(* of the flight path resolver (avwx/flight_path.py).                      *)
(*                                                                         *)
(* Text is modelled as a sequence of one-character strings, a token list   *)
(* as a sequence of such texts, so that strip, split, join, find and       *)
(* replace are computed character by character as Python computes them.    *)
(***************************************************************************)
EXTENDS Integers, Sequences, FiniteSets, TLC

VARIABLES
    sanPc,      \* position of the sanitize driver: "start", "once", "twice"
    sanRaw,     \* the report text handed to sanitize
    sanOnce,    \* sanitize(raw)
    sanTwice,   \* sanitize(sanitize(raw))
    mgrPc,      \* AirSigManager.async_update: "idle" or "gather" (awaiting aio.gather)
    mgrReports, \* AirSigManager.reports, the stored snapshot
    mgrTasks,   \* the two __update coroutines: state and parsed data of each
    mgrOrder,   \* the order in which the coroutines of this cycle completed
    mgrBefore,  \* the snapshot held when the running (or last) cycle started
    mgrMerged,  \* the local list "reports" built by the last cycle that returned
    mgrRet,     \* outcome of the last cycle: "none", "true", "false", "raised"
    mgrUpdates, \* number of update cycles started
    pathPc,     \* position of the to_coordinates driver: "start", "done"
    pathValues, \* the list given to to_coordinates: coordinates and idents
    pathResult, \* what to_coordinates returned, or that it raised
    altPc,      \* position of the _altitudes driver: "start", "done"
    altData,    \* the token list given to _altitudes
    altOut,     \* what _altitudes returned, or that it raised
    movPc,      \* position of the _movement driver: "start", "done"
    movData,    \* the token list given to _movement
    movUnits,   \* units.wind_speed when _movement is called
    movOut,     \* what _movement returned, or that it raised
    obsPc,      \* position of _observations: "start", "run", "done", "raised"
    obsInput,   \* the token list given to _observations
    obsUnits,   \* units.wind_speed
    obsCalls,   \* the calls of _sigmet_observation running and still to make
    obsStep,    \* the sub-extractor the running call is to run next
    obsPrev,    \* the buffer the last sub-extractor received
    obsData,    \* the token buffer of the running call
    obsFields,  \* what the sub-extractors of the running call extracted
    obsOut,     \* the observation and the forecast of _observations
    callPc,     \* position of the caller of one function: "start", "done"
    callFn,     \* the function called
    callArg,    \* its argument
    callOut     \* what it returned, or that it raised

sanVars == <<sanPc, sanRaw, sanOnce, sanTwice>>

mgrVars == <<mgrPc, mgrReports, mgrTasks, mgrOrder, mgrBefore, mgrMerged, mgrRet, mgrUpdates>>

pathVars == <<pathPc, pathValues, pathResult>>

altVars == <<altPc, altData, altOut>>

movVars == <<movPc, movData, movUnits, movOut>>

obsVars == <<obsPc, obsInput, obsUnits, obsCalls, obsStep, obsPrev, obsData, obsFields, obsOut>>

callVars == <<callPc, callFn, callArg, callOut>>

vars == <<sanVars, mgrVars, pathVars, altVars, movVars, obsVars, callVars>>

\* Python's None
None == "None"

(***************************************************************************)
(* Text primitives (Python str / list semantics)                           *)
(***************************************************************************)

\* str.isspace for one character: the whitespace str.split() splits on
IsSpace(c) == c \in {" ", "\t", "\n", "\r", "\f"}

\* s[from:] for 1 <= from
Drop(s, n) == SubSeq(s, n + 1, Len(s))

\* s[:n]
Take(s, n) == SubSeq(s, 1, n)

\* str.lstrip(chars)
RECURSIVE LStrip(_, _)
LStrip(s, chars) ==
    IF s # <<>> /\ Head(s) \in chars THEN LStrip(Tail(s), chars) ELSE s

\* str.rstrip(chars)
RECURSIVE RStrip(_, _)
RStrip(s, chars) ==
    IF s # <<>> /\ s[Len(s)] \in chars THEN RStrip(Take(s, Len(s) - 1), chars) ELSE s

\* str.strip(chars)
Strip(s, chars) == RStrip(LStrip(s, chars), chars)

\* str.split(): the maximal runs of non-whitespace characters, in order
RECURSIVE SplitFrom(_, _, _)
SplitFrom(s, cur, acc) ==
    IF s = <<>> THEN (IF cur = <<>> THEN acc ELSE Append(acc, cur))
    ELSE IF IsSpace(Head(s))
         THEN SplitFrom(Tail(s), <<>>, IF cur = <<>> THEN acc ELSE Append(acc, cur))
         ELSE SplitFrom(Tail(s), Append(cur, Head(s)), acc)

Split(s) == SplitFrom(s, <<>>, <<>>)

\* " ".join(tokens)
RECURSIVE Join(_)
Join(toks) ==
    IF toks = <<>> THEN <<>>
    ELSE IF Len(toks) = 1 THEN toks[1]
    ELSE toks[1] \o <<" ">> \o Join(Tail(toks))

\* All texts over an alphabet of length at most n
RECURSIVE TextsUpTo(_, _)
TextsUpTo(alphabet, n) ==
    IF n = 0 THEN {<<>>}
    ELSE LET shorter == TextsUpTo(alphabet, n - 1)
         IN shorter \cup {Append(t, c) : t \in shorter, c \in alphabet}

\* str.isdigit for a text: not empty, and digits only
Digits == {"0", "1", "2", "3", "4", "5", "6", "7", "8", "9"}

IsDigit(s) == s # <<>> /\ \A i \in 1..Len(s) : s[i] \in Digits

\* A Python slice bound: negative bounds count from the end, all are clamped
SliceBound(n, len) ==
    IF n < 0 THEN (IF len + n < 0 THEN 0 ELSE len + n)
    ELSE IF n > len THEN len ELSE n

\* s[lo:hi] with Python's bounds (0-based, hi exclusive)
Slice(s, lo, hi) == SubSeq(s, SliceBound(lo, Len(s)) + 1, SliceBound(hi, Len(s)))

\* s[lo:]
SliceFrom(s, lo) == SubSeq(s, SliceBound(lo, Len(s)) + 1, Len(s))

\* str.startswith / str.endswith
StartsWith(s, prefix) == Len(s) >= Len(prefix) /\ Take(s, Len(prefix)) = prefix

EndsWith(s, suffix) ==
    Len(s) >= Len(suffix) /\ SubSeq(s, Len(s) - Len(suffix) + 1, Len(s)) = suffix

\* str.removesuffix
RemoveSuffix(s, suffix) ==
    IF suffix # <<>> /\ EndsWith(s, suffix) THEN Take(s, Len(s) - Len(suffix)) ELSE s

\* str.removeprefix
RemovePrefix(s, prefix) ==
    IF prefix # <<>> /\ StartsWith(s, prefix) THEN Drop(s, Len(prefix)) ELSE s

\* c in s, for one character
HasChar(s, c) == \E i \in 1..Len(s) : s[i] = c

\* str.split(c) for one character: the parts between the separators, empty ones kept
RECURSIVE SplitOnFrom(_, _, _, _)
SplitOnFrom(s, c, cur, acc) ==
    IF s = <<>> THEN Append(acc, cur)
    ELSE IF Head(s) = c THEN SplitOnFrom(Tail(s), c, <<>>, Append(acc, cur))
    ELSE SplitOnFrom(Tail(s), c, Append(cur, Head(s)), acc)

SplitOn(s, c) == SplitOnFrom(s, c, <<>>, <<>>)

\* Characters
Upper == {"A", "B", "C", "D", "E", "F", "G", "H", "I", "J", "K", "L", "M"} \cup
         {"N", "O", "P", "Q", "R", "S", "T", "U", "V", "W", "X", "Y", "Z"}

Lower == {"a", "b", "c", "d", "e", "f", "g", "h", "i", "j", "k", "l", "m"} \cup
         {"n", "o", "p", "q", "r", "s", "t", "u", "v", "w", "x", "y", "z"}

\* \w of a regular expression
IsWordChar(c) == c \in Upper \cup Lower \cup Digits \cup {"_"}

\* [A-z] of a regular expression: the letters and the characters between Z and a
\* (the grave accent, which a TLA+ string cannot hold, is left out)
ClassAz == Upper \cup Lower \cup {"[", "\\", "]", "^", "_"}

\* s[k:k + len(pat)] == pat, k being a 0-based offset
TextAt(s, k, pat) ==
    k >= 0 /\ k + Len(pat) <= Len(s) /\ SubSeq(s, k + 1, k + Len(pat)) = pat

\* The character at 0-based offset k is in the class
ClassAt(s, k, class) == k >= 0 /\ k < Len(s) /\ s[k + 1] \in class

\* n characters of the class from 0-based offset k on
ClassRun(s, k, n, class) == \A i \in 0..(n - 1) : ClassAt(s, k + i, class)

\* \b of a regular expression at 0-based offset k
WordBoundary(s, k) ==
    (k > 0 /\ k <= Len(s) /\ IsWordChar(s[k])) # (k < Len(s) /\ IsWordChar(s[k + 1]))

\* str.find(pat) from offset k on: the least offset of pat, -1 when there is none
RECURSIVE FindFrom(_, _, _)
FindFrom(s, pat, k) ==
    IF k + Len(pat) > Len(s) THEN -1
    ELSE IF TextAt(s, k, pat) THEN k ELSE FindFrom(s, pat, k + 1)

Find(s, pat) == FindFrom(s, pat, 0)

\* str.rfind(pat): the greatest offset of pat, -1 when there is none
RECURSIVE RFindFrom(_, _, _)
RFindFrom(s, pat, k) ==
    IF k < 0 THEN -1
    ELSE IF TextAt(s, k, pat) THEN k ELSE RFindFrom(s, pat, k - 1)

RFind(s, pat) == RFindFrom(s, pat, Len(s) - Len(pat))

\* str.replace(old, new) for a non-empty old: every occurrence, left to right
RECURSIVE Replace(_, _, _)
Replace(s, old, new) ==
    IF s = <<>> THEN <<>>
    ELSE IF TextAt(s, 0, old) THEN new \o Replace(Drop(s, Len(old)), old, new)
    ELSE <<Head(s)>> \o Replace(Tail(s), old, new)

\* list.index(x) as a 1-based position, 0 when x is not in the list (ValueError)
RECURSIVE IndexFrom(_, _, _)
IndexFrom(list, x, i) ==
    IF i > Len(list) THEN 0
    ELSE IF list[i] = x THEN i ELSE IndexFrom(list, x, i + 1)

Index(list, x) == IndexFrom(list, x, 1)

\* list.pop(i) for a 1-based position: the list without that item
Pop(list, i) == Take(list, i - 1) \o Drop(list, i)

\* All lists over a vocabulary of at most n items
ListsUpTo(vocabulary, n) == UNION {[1..k -> vocabulary] : k \in 0..n}

(***************************************************************************)
(* sanitize                                                                *)
(***************************************************************************)

\* sanitize(report): " ".join(report.strip(" =").split())
sanitize(report) == Join(Split(Strip(report, {" ", "="})))

\* Longest raw report text tried
MaxRawLen == 4

\* Characters of the raw report texts: a letter, '=', and three kinds of whitespace
RawAlphabet == {"A", "=", " ", "\t", "\n"}

\* The sanitize driver is not part of the run
SanOff ==
    /\ sanPc = "off"
    /\ sanRaw = <<>>
    /\ sanOnce = None
    /\ sanTwice = None

\* The manager is not part of the run
MgrOff ==
    /\ mgrPc = "off"
    /\ mgrReports = None
    /\ mgrTasks = <<>>
    /\ mgrOrder = <<>>
    /\ mgrBefore = None
    /\ mgrMerged = <<>>
    /\ mgrRet = "none"
    /\ mgrUpdates = 0

\* to_coordinates is not part of the run
PathOff ==
    /\ pathPc = "off"
    /\ pathValues = <<>>
    /\ pathResult = None

\* _altitudes is not part of the run
AltOff ==
    /\ altPc = "off"
    /\ altData = <<>>
    /\ altOut = None

\* _movement is not part of the run
MovOff ==
    /\ movPc = "off"
    /\ movData = <<>>
    /\ movUnits = None
    /\ movOut = None

\* _observations is not part of the run
ObsOff ==
    /\ obsPc = "off"
    /\ obsInput = <<>>
    /\ obsUnits = None
    /\ obsCalls = <<>>
    /\ obsStep = 0
    /\ obsPrev = <<>>
    /\ obsData = <<>>
    /\ obsFields = None
    /\ obsOut = None

\* No function is called on its own in the run
CallOff ==
    /\ callPc = "off"
    /\ callFn = None
    /\ callArg = <<>>
    /\ callOut = None

SanInit ==
    /\ sanPc = "start"
    /\ sanRaw \in TextsUpTo(RawAlphabet, MaxRawLen)
    /\ sanOnce = None
    /\ sanTwice = None
    /\ MgrOff
    /\ PathOff
    /\ AltOff
    /\ MovOff
    /\ ObsOff
    /\ CallOff

\* AirSigmet.sanitize(report) / parse(): the report is sanitized
SanitizeReport ==
    /\ sanPc = "start"
    /\ sanOnce' = sanitize(sanRaw)
    /\ sanPc' = "once"
    /\ UNCHANGED <<sanRaw, sanTwice, mgrVars, pathVars, altVars, movVars, obsVars, callVars>>

\* The sanitized text is given to sanitize again (parse() sanitizes report.raw,
\* which a caller may have sanitized already)
SanitizeAgain ==
    /\ sanPc = "once"
    /\ sanTwice' = sanitize(sanOnce)
    /\ sanPc' = "twice"
    /\ UNCHANGED <<sanRaw, sanOnce, mgrVars, pathVars, altVars, movVars, obsVars, callVars>>

SanNext == SanitizeReport \/ SanitizeAgain

SpecSanitize == SanInit /\ [][SanNext]_vars

\* C1: sanitize is idempotent: for every input text, sanitizing the sanitized
\* text gives the sanitized text again.
C1_SanitizeIdempotent == sanPc = "twice" => sanTwice = sanOnce

(***************************************************************************)
(* AirSigManager: the update cycle                                         *)
(***************************************************************************)

\* Most raw reports one fetch returns
MaxFetched == 2

\* Most update cycles of one manager
MaxUpdates == 2

\* self._services = [NOAA_Bulk("airsigmet"), NOAA_Intl("airsigmet")]
Services == <<"bulk", "intl">>

\* Raw report texts a service may return; AirSigmet.from_report raises on "bad"
RawReports == {"a", "b", "bad"}

Parses(raw) == raw # "bad"

\* What async_fetch may do: raise, or return a list of raw reports
FetchError == [ok |-> FALSE, reports |-> <<>>]

FetchResponses ==
    {FetchError} \cup
    {[ok |-> TRUE, reports |-> l] :
        l \in UNION {[1..n -> RawReports] : n \in 0..MaxFetched}}

\* reports held by the manager: None, or a list
NoReports == [set |-> FALSE, list |-> <<>>]

Snapshot(list) == [set |-> TRUE, list |-> list]

\* AirSigmet.from_report(report) with obj.source = source
ParsedReport(raw, index) == [raw |-> raw, source |-> Services[index]]

\* The body of __update after the fetch returned: no await in it, so one step
UpdateData(resp, index) ==
    [i \in 1..Len(resp.reports) |-> ParsedReport(resp.reports[i], index)]

UpdateRaises(resp) ==
    \/ ~resp.ok
    \/ \E i \in 1..Len(resp.reports) : ~Parses(resp.reports[i])

\* A mutant of ChainData: the results are chained in the order of completion
ChainDataAsCompleted(tasks) == tasks[mgrOrder[1]].data \o tasks[mgrOrder[2]].data

\* list(chain.from_iterable(data)), data being gather's results in the order of coros
ChainData(tasks) == tasks[1].data \o tasks[2].data

\* AirSigmet == AirSigmet: structural equality of two parsed reports
ReportEq(a, b) == a.raw = b.raw /\ a.source = b.source

\* A mutant of ReportsDiffer: only the lengths of the lists are compared
ReportsDifferLen(reports, snapshot) ==
    ~snapshot.set \/ Len(reports) # Len(snapshot.list)

\* reports != self.reports: list inequality, element by element; a list never equals None
ReportsDiffer(reports, snapshot) ==
    \/ ~snapshot.set
    \/ Len(reports) # Len(snapshot.list)
    \/ \E i \in 1..Len(reports) : ~ReportEq(reports[i], snapshot.list[i])

\* changed = reports != self.reports; if changed: self.reports = reports
NewSnapshot(reports, snapshot) ==
    IF ReportsDiffer(reports, snapshot) THEN Snapshot(reports) ELSE snapshot

\* A mutant of SnapshotAfterRaise: what the completed coroutines returned is stored
SnapshotPartial(tasks, snapshot) == Snapshot(tasks[1].data \o tasks[2].data)

\* self.reports after gather raised: line 491 is never reached
SnapshotAfterRaise(tasks, snapshot) == snapshot

MgrInit ==
    /\ mgrPc = "idle"
    /\ mgrReports = NoReports
    /\ mgrTasks = [i \in 1..2 |-> [st |-> "new", fetched |-> <<>>, data |-> <<>>]]
    /\ mgrOrder = <<>>
    /\ mgrBefore = NoReports
    /\ mgrMerged = <<>>
    /\ mgrRet = "none"
    /\ mgrUpdates = 0
    /\ SanOff
    /\ PathOff
    /\ AltOff
    /\ MovOff
    /\ ObsOff
    /\ CallOff

\* async_update up to "await aio.gather(*coros)": both coroutines run to their await
StartUpdate ==
    /\ mgrPc = "idle"
    /\ mgrUpdates < MaxUpdates
    /\ mgrPc' = "gather"
    /\ mgrTasks' = [i \in 1..2 |-> [st |-> "fetching", fetched |-> <<>>, data |-> <<>>]]
    /\ mgrOrder' = <<>>
    /\ mgrBefore' = mgrReports
    /\ mgrRet' = "none"
    /\ mgrUpdates' = mgrUpdates + 1
    /\ UNCHANGED <<mgrReports, mgrMerged, sanVars, pathVars, altVars, movVars, obsVars, callVars>>

\* __update(index) from the return of its fetch to its end
FetchReturns(index) ==
    /\ mgrPc = "gather"
    /\ mgrTasks[index].st = "fetching"
    /\ \E resp \in FetchResponses :
         mgrTasks' = [mgrTasks EXCEPT ![index] =
                        IF UpdateRaises(resp)
                        THEN [st |-> "failed", fetched |-> resp.reports, data |-> <<>>]
                        ELSE [st |-> "done", fetched |-> resp.reports,
                              data |-> UpdateData(resp, index)]]
    /\ mgrOrder' = Append(mgrOrder, index)
    /\ UNCHANGED <<mgrPc, mgrReports, mgrBefore, mgrMerged, mgrRet, mgrUpdates, sanVars, pathVars, altVars, movVars, obsVars, callVars>>

\* aio.gather raises the first exception of its coroutines into async_update
GatherRaises ==
    /\ mgrPc = "gather"
    /\ \E i \in 1..2 : mgrTasks[i].st = "failed"
    /\ mgrPc' = "idle"
    /\ mgrRet' = "raised"
    /\ mgrReports' = SnapshotAfterRaise(mgrTasks, mgrReports)
    /\ UNCHANGED <<mgrTasks, mgrOrder, mgrBefore, mgrMerged, mgrUpdates, sanVars, pathVars, altVars, movVars, obsVars, callVars>>

\* aio.gather returns, and async_update runs to its end
GatherReturns ==
    /\ mgrPc = "gather"
    /\ \A i \in 1..2 : mgrTasks[i].st = "done"
    /\ LET reports == ChainData(mgrTasks)
       IN /\ mgrMerged' = reports
          /\ mgrRet' = IF ReportsDiffer(reports, mgrReports) THEN "true" ELSE "false"
          /\ mgrReports' = NewSnapshot(reports, mgrReports)
    /\ mgrPc' = "idle"
    /\ UNCHANGED <<mgrTasks, mgrOrder, mgrBefore, mgrUpdates, sanVars, pathVars, altVars, movVars, obsVars, callVars>>

MgrNext ==
    \/ StartUpdate
    \/ \E index \in 1..2 : FetchReturns(index)
    \/ GatherRaises
    \/ GatherReturns

SpecManager == MgrInit /\ [][MgrNext]_vars

\* The merged list the spec promises for what the two fetches returned: the
\* reports of the first declared service, then those of the second, each in
\* the order of its fetch
DeclaredOrder(first, second) ==
    [i \in 1..(Len(first) + Len(second)) |->
        IF i <= Len(first)
        THEN [raw |-> first[i], source |-> Services[1]]
        ELSE [raw |-> second[i - Len(first)], source |-> Services[2]]]

Returned == mgrPc = "idle" /\ mgrRet \in {"true", "false"}

\* C4: for every completion order of the two concurrent fetches, the merged
\* report list is the reports of the domestic bulk service followed by those
\* of the international service, each in the order its fetch returned them.
C4_MergedInDeclaredOrder ==
    Returned => mgrMerged = DeclaredOrder(mgrTasks[1].fetched, mgrTasks[2].fetched)

\* C4 witness: the international fetch completed first while both were in
\* flight, both returned two different reports, and the cycle returned.
C4_Witness ==
    /\ Returned
    /\ mgrOrder = <<2, 1>>
    /\ mgrTasks[1].fetched = <<"a", "b">>
    /\ mgrTasks[2].fetched = <<"b", "a">>

\* C5: an update cycle is all-or-nothing: while the fetches are awaited the
\* snapshot is untouched, a cycle in which a fetch or a parse failed ends by
\* raising, and the snapshot is then what it was before the call.
C5_AllOrNothing ==
    /\ mgrPc = "gather" => mgrReports = mgrBefore
    /\ (mgrPc = "idle" /\ \E i \in 1..2 : mgrTasks[i].st = "failed")
          => (mgrRet = "raised" /\ mgrReports = mgrBefore)
    /\ mgrRet = "raised" => mgrReports = mgrBefore

\* C5 witness: the second source failed after the first had completed with
\* reports that differ from the stored snapshot, and the cycle raised.
C5_Witness ==
    /\ mgrRet = "raised"
    /\ mgrOrder = <<1, 2>>
    /\ mgrTasks[1].st = "done"
    /\ mgrTasks[1].data # <<>>
    /\ mgrTasks[2].st = "failed"
    /\ mgrBefore.set
    /\ mgrBefore.list # mgrTasks[1].data

\* C6: a cycle that returns, returns true exactly when its merged list differs
\* from the snapshot held before the call; the snapshot is replaced only then,
\* and afterwards it is the merged list of that cycle.
C6_ChangeDetection ==
    Returned =>
        /\ (mgrRet = "true") <=> (~mgrBefore.set \/ mgrMerged # mgrBefore.list)
        /\ mgrRet = "false" => mgrReports = mgrBefore
        /\ mgrReports = Snapshot(mgrMerged)

\* C6 witness: a second cycle returned the reports the snapshot already held,
\* a non-empty list, and answered false.
C6_Witness ==
    /\ Returned
    /\ mgrUpdates = 2
    /\ mgrRet = "false"
    /\ mgrBefore.set
    /\ Len(mgrMerged) = 2

(***************************************************************************)
(* flight_path: to_coordinates                                             *)
(***************************************************************************)

\* Longest list given to to_coordinates
MaxPath == 3

\* Coordinates lie on one meridian, at latitudes 0..MaxLat degrees
MaxLat == 5

\* A Coord element of the input list
Coord(lat) == [kind |-> "coord", lat |-> lat]

\* A str element of the input list
Ident(id) == [kind |-> "ident", id |-> id]

\* Station.from_icao: the idents it knows, with their latitude
IcaoTable == [ICA |-> 1]

\* NAVAIDS: the candidates of each navaid ident, in the order of the data file
NavaidTable == [ONE |-> <<2>>, AMB |-> <<0, 4>>, AMX |-> <<3, 1, 5>>]

\* Station.from_iata: the idents it knows, with their latitude
IataTable == [IAT |-> 5]

Idents == {"ICA", "ONE", "AMB", "AMX", "IAT", "BAD"}

\* great_circle(near.pair, far.pair).nm for two points of one meridian:
\* 60 nautical miles per degree of latitude
Distance(near, far) == 60 * (IF near >= far THEN near - far ELSE far - near)

\* distances.sort(key=lambda x: x[0]); distances[0]: the index of the first of
\* the least distances (the sort is stable)
FirstLeast(distances) ==
    CHOOSE i \in 1..Len(distances) :
        /\ \A j \in 1..Len(distances) : distances[i] <= distances[j]
        /\ \A j \in 1..(i - 1) : distances[j] > distances[i]

\* A mutant of ClosestToCoord: the coordinate the candidates are compared with
ClosestIsNeighbour(coord, coords) == coord

\* _closest(coord, coords) for a Coord
ClosestToCoord(coord, coords) ==
    coords[FirstLeast([i \in 1..Len(coords) |-> Distance(coord, coords[i])])]

\* _closest(coord, coords) for a list of Coord
ClosestOfList(list, coords) ==
    list[FirstLeast([i \in 1..Len(list) |->
                        Distance(list[i], ClosestToCoord(list[i], coords))])]

\* A QCoord or None: last_value, previous, up_next
NoCoord == [kind |-> "none"]
OneCoord(lat) == [kind |-> "coord", lat |-> lat]
CoordList(list) == [kind |-> "list", list |-> list]

\* What a call returns: a list, or an exception
Raised == [ok |-> FALSE, coords |-> <<>>]
Returns(coords) == [ok |-> TRUE, coords |-> coords]

\* A mutant of BestCoord: the previous element is preferred to the next one
BestCoordPrefersPrevious(previous, current, upNext) ==
    IF previous.kind = "none" /\ upNext.kind = "none" THEN Raised
    ELSE LET near == IF previous.kind = "none" THEN upNext ELSE previous
         IN IF near.kind = "list"
            THEN Returns(<<ClosestOfList(current, near.list)>>)
            ELSE Returns(<<ClosestToCoord(near.lat, current)>>)

\* _best_coord(previous, current, up_next), current being a list
BestCoord(previous, current, upNext) ==
    IF previous.kind = "none" /\ upNext.kind = "none" THEN Raised
    ELSE LET near == IF upNext.kind = "none" THEN previous ELSE upNext
         IN IF near.kind = "list"
            THEN Returns(<<ClosestOfList(current, near.list)>>)
            ELSE Returns(<<ClosestToCoord(near.lat, current)>>)

\* Lines 64-74: what the head of the list resolves to: a Coord, the candidates
\* of an ambiguous navaid, or BadStation
Resolve(value) ==
    IF value.kind = "coord" THEN OneCoord(value.lat)
    ELSE IF value.id \in DOMAIN IcaoTable THEN OneCoord(IcaoTable[value.id])
    ELSE IF value.id \in DOMAIN NavaidTable
         THEN IF Len(NavaidTable[value.id]) = 1
              THEN OneCoord(NavaidTable[value.id][1])
              ELSE CoordList(NavaidTable[value.id])
    ELSE IF value.id \in DOMAIN IataTable THEN OneCoord(IataTable[value.id])
    ELSE NoCoord

\* to_coordinates(values, last_value)
RECURSIVE ToCoordinates(_, _)
ToCoordinates(values, lastValue) ==
    IF values = <<>> THEN Returns(<<>>)
    ELSE LET coord == Resolve(values[1])
         IN IF coord.kind = "none" THEN Raised
            ELSE IF coord.kind = "coord"
            THEN LET rest == ToCoordinates(Tail(values), coord)
                 IN IF rest.ok THEN Returns(<<coord.lat>> \o rest.coords) ELSE Raised
            ELSE LET newCoords == ToCoordinates(Tail(values), coord)
                 IN IF ~newCoords.ok THEN Raised
                    ELSE LET newCoord == IF newCoords.coords # <<>>
                                         THEN OneCoord(newCoords.coords[1])
                                         ELSE NoCoord
                             best == BestCoord(lastValue, coord.list, newCoord)
                         IN IF best.ok
                            THEN Returns(best.coords \o newCoords.coords)
                            ELSE Raised

PathElements == {Coord(lat) : lat \in 0..MaxLat} \cup {Ident(id) : id \in Idents}

PathInit ==
    /\ pathPc = "start"
    /\ pathValues \in UNION {[1..n -> PathElements] : n \in 0..MaxPath}
    /\ pathResult = None
    /\ SanOff
    /\ MgrOff
    /\ AltOff
    /\ MovOff
    /\ ObsOff
    /\ CallOff

\* A caller (_coords_from_navaids) calls to_coordinates(values)
CallToCoordinates ==
    /\ pathPc = "start"
    /\ pathResult' = ToCoordinates(pathValues, NoCoord)
    /\ pathPc' = "done"
    /\ UNCHANGED <<pathValues, sanVars, mgrVars, altVars, movVars, obsVars, callVars>>

PathNext == CallToCoordinates

SpecPath == PathInit /\ [][PathNext]_vars

\* The candidates of the ambiguous ident at position i of the input, if it is one
IsAmbiguous(values, i) ==
    /\ values[i].kind = "ident"
    /\ values[i].id \notin DOMAIN IcaoTable
    /\ values[i].id \in DOMAIN NavaidTable
    /\ Len(NavaidTable[values[i].id]) > 1

Candidates(values, i) ==
    {NavaidTable[values[i].id][k] : k \in 1..Len(NavaidTable[values[i].id])}

\* c is a candidate of cands nearest to the coordinate other
NearestTo(c, cands, other) ==
    /\ c \in cands
    /\ \A x \in cands : Distance(c, other) <= Distance(x, other)

\* C7: an ambiguous ident resolves to its candidate nearest to the resolved
\* next element when there is one, whatever the previous element; otherwise to
\* its candidate nearest to the resolved previous element; and the call fails
\* when the ambiguous ident is the only element.
C7_Disambiguation ==
    pathPc = "done" =>
        LET n == Len(pathValues)
            res == pathResult.coords
        IN /\ (n = 1 /\ IsAmbiguous(pathValues, 1)) => ~pathResult.ok
           /\ pathResult.ok =>
                \A i \in 1..n :
                    IsAmbiguous(pathValues, i) =>
                        IF i < n
                        THEN NearestTo(res[i], Candidates(pathValues, i), res[i + 1])
                        ELSE NearestTo(res[i], Candidates(pathValues, i), res[i - 1])

\* C7 witness: an ambiguous ident (candidates 0 and 4) between a previous
\* element nearer to 0 and a next element nearer to 4 resolved to 4.
C7_Witness ==
    /\ pathPc = "done"
    /\ pathValues = <<Coord(1), Ident("AMB"), Coord(3)>>
    /\ pathResult.ok
    /\ pathResult.coords = <<1, 4, 3>>

\* The coordinate of the input element at position i, when it has only one
SingleCoord(values, i) ==
    IF values[i].kind = "coord" THEN values[i].lat
    ELSE IF values[i].id \in DOMAIN IcaoTable THEN IcaoTable[values[i].id]
    ELSE IF values[i].id \in DOMAIN NavaidTable THEN NavaidTable[values[i].id][1]
    ELSE IataTable[values[i].id]

\* C15: when to_coordinates returns, its list is as long as its input and
\* position i holds the coordinate of input i: a Coord as it is, the
\* coordinate of an ident that has one, and one of its own candidates for an
\* ident that has several.
C15_SameLength ==
    (pathPc = "done" /\ pathResult.ok) =>
        /\ Len(pathResult.coords) = Len(pathValues)
        /\ \A i \in 1..Len(pathValues) :
               IF IsAmbiguous(pathValues, i)
               THEN pathResult.coords[i] \in Candidates(pathValues, i)
               ELSE pathResult.coords[i] = SingleCoord(pathValues, i)

\* C15 witness: two ambiguous idents before a Coord were each resolved to one
\* of their own candidates, and the Coord returned as it is.
C15_Witness ==
    /\ pathPc = "done"
    /\ pathValues = <<Ident("AMB"), Ident("AMX"), Coord(2)>>
    /\ pathResult.ok
    /\ pathResult.coords = <<4, 3, 2>>

(***************************************************************************)
(* _bounds: lateral clauses, coordinate literals, navaid references        *)
(***************************************************************************)

\* The value of a text of digits
DigitValue(c) == CHOOSE n \in 0..9 : <<"0", "1", "2", "3", "4", "5", "6", "7", "8", "9">>[n + 1] = c

RECURSIVE DigitsToInt(_)
DigitsToInt(s) ==
    IF s = <<>> THEN 0 ELSE 10 * DigitsToInt(Take(s, Len(s) - 1)) + DigitValue(s[Len(s)])

\* float(num) for the decimal literals [+-]digits[.digits]: the sign, the whole
\* part and the fraction digits without closing zeros; other texts raise ValueError
FloatRaised == [ok |-> FALSE]

Float(num) ==
    LET signed == num # <<>> /\ num[1] \in {"-", "+"}
        body == IF signed THEN Tail(num) ELSE num
        parts == SplitOn(body, ".")
        whole == parts[1]
        frac == IF Len(parts) = 2 THEN parts[2] ELSE <<>>
        valid == /\ Len(parts) <= 2
                 /\ whole \o frac # <<>>
                 /\ \A i \in 1..Len(whole) : whole[i] \in Digits
                 /\ \A i \in 1..Len(frac) : frac[i] \in Digits
        fraction == RStrip(frac, {"0"})
        value == DigitsToInt(whole)
    IN IF ~valid THEN FloatRaised
       ELSE [ok |-> TRUE,
             neg |-> signed /\ num[1] = "-" /\ (value # 0 \/ fraction # <<>>),
             whole |-> value,
             frac |-> fraction]

\* A mutant of CoordValue: the point is put after two digits, for a longitude too
CoordValueTwoDigits(value) ==
    LET strip == IF value[1] \in {"N", "S"} THEN "N" ELSE "E"
        replace == IF value[1] \in {"N", "S"} THEN "S" ELSE "W"
        dotted == Slice(value, 0, 3) \o <<".">> \o SliceFrom(value, 3)
    IN Float(Replace(LStrip(dotted, {strip}), <<replace>>, <<"-">>))

\* _coord_value(value)
CoordValue(value) ==
    LET latitude == value[1] \in {"N", "S"}
        index == IF latitude THEN 3 ELSE 4
        strip == IF latitude THEN "N" ELSE "E"
        replace == IF latitude THEN "S" ELSE "W"
        dotted == Slice(value, 0, index) \o <<".">> \o SliceFrom(value, index)
    IN Float(Replace(LStrip(dotted, {strip}), <<replace>>, <<"-">>))

\* _COORD_PATTERN at 0-based offset k: the end of the match, -1 when there is none
CoordMatch(s, k) ==
    IF /\ WordBoundary(s, k)
       /\ ClassAt(s, k, {"N", "S"})
       /\ ClassRun(s, k + 1, 4, Digits)
       /\ TextAt(s, k + 5, <<" ">>)
       /\ ClassAt(s, k + 6, {"E", "W"})
       /\ ClassRun(s, k + 7, 5, Digits)
       /\ WordBoundary(s, k + 12)
    THEN IF TextAt(s, k + 12, <<" ", "-">>) THEN k + 14 ELSE k + 12
    ELSE -1

\* _LATTERAL_PATTERN at offset k: \b([NS] OF [NS]\d{4}), or else
\* ([EW] OF [EW]\d{5})( AND)?\b, the alternation binding what is on each side
LatteralMatch(s, k) ==
    IF /\ WordBoundary(s, k)
       /\ ClassAt(s, k, {"N", "S"})
       /\ TextAt(s, k + 1, <<" ", "O", "F", " ">>)
       /\ ClassAt(s, k + 5, {"N", "S"})
       /\ ClassRun(s, k + 6, 4, Digits)
    THEN k + 10
    ELSE IF /\ ClassAt(s, k, {"E", "W"})
            /\ TextAt(s, k + 1, <<" ", "O", "F", " ">>)
            /\ ClassAt(s, k + 5, {"E", "W"})
            /\ ClassRun(s, k + 6, 5, Digits)
    THEN IF TextAt(s, k + 11, <<" ", "A", "N", "D">>) /\ WordBoundary(s, k + 15) THEN k + 15
         ELSE IF WordBoundary(s, k + 11) THEN k + 11
         ELSE -1
    ELSE -1

\* The length of the run of characters of the class from offset k on
RECURSIVE RunLength(_, _, _)
RunLength(s, k, class) ==
    IF ClassAt(s, k, class) THEN 1 + RunLength(s, k + 1, class) ELSE 0

\* _NAVAID_PATTERN at offset k: \b(\d{1,3}[NESW]{1,3} [A-z]{3}\b), or else
\* ((-|(TO )|(FROM ))[A-z]{3}\b)
NavaidMatch(s, k) ==
    LET digits == RunLength(s, k, Digits)
        points == RunLength(s, k + digits, {"N", "E", "S", "W"})
        ident == k + digits + points + 1
        prefix == IF TextAt(s, k, <<"-">>) THEN 1
                  ELSE IF TextAt(s, k, <<"T", "O", " ">>) THEN 3
                  ELSE IF TextAt(s, k, <<"F", "R", "O", "M", " ">>) THEN 5
                  ELSE 0
    IN IF /\ WordBoundary(s, k)
          /\ digits \in 1..3
          /\ points \in 1..3
          /\ TextAt(s, k + digits + points, <<" ">>)
          /\ ClassRun(s, ident, 3, ClassAz)
          /\ WordBoundary(s, ident + 3)
       THEN ident + 3
       ELSE IF /\ prefix > 0
               /\ ClassRun(s, k + prefix, 3, ClassAz)
               /\ WordBoundary(s, k + prefix + 3)
       THEN k + prefix + 3
       ELSE -1

PatternMatch(pattern, s, k) ==
    IF pattern = "latteral" THEN LatteralMatch(s, k)
    ELSE IF pattern = "coord" THEN CoordMatch(s, k)
    ELSE NavaidMatch(s, k)

\* pattern.finditer(s): the matches from left to right, none overlapping
RECURSIVE FindIterFrom(_, _, _)
FindIterFrom(pattern, s, k) ==
    IF k >= Len(s) THEN <<>>
    ELSE LET end == PatternMatch(pattern, s, k)
         IN IF end > k
            THEN <<[start |-> k, group |-> SubSeq(s, k + 1, end)]>>
                    \o FindIterFrom(pattern, s, end)
            ELSE FindIterFrom(pattern, s, k + 1)

FindIter(pattern, s) == FindIterFrom(pattern, s, 0)

Lit_Break == <<" ", "<", "b", "r", "e", "a", "k", ">", " ">>

\* _pre_break(report): find() gives -1, which is true, when there is no
\* marker, and report[:-1] drops the last character
PreBreak(report) ==
    LET breakIndex == Find(report, Lit_Break)
    IN IF breakIndex # 0 THEN Slice(report, 0, breakIndex) ELSE report

\* _info_from_match(match, start)
InfoStart(match, start) == IF start = -1 THEN match.start ELSE start

\* The loop of _bounds_from_latterals over the matches from the i-th on
RECURSIVE LatteralsLoop(_, _, _, _, _)
LatteralsLoop(matches, i, report, bounds, start) ==
    IF i > Len(matches) THEN [report |-> report, items |-> bounds, start |-> start]
    ELSE LatteralsLoop(matches, i + 1,
                       Replace(report, matches[i].group, <<" ">>),
                       Append(bounds, RemoveSuffix(matches[i].group, <<" ", "A", "N", "D">>)),
                       InfoStart(matches[i], start))

\* _bounds_from_latterals(report, start)
BoundsFromLatterals(report, start) ==
    LatteralsLoop(FindIter("latteral", PreBreak(report)), 1, report, <<>>, start)

\* Coord(lat, lon, repr) of a coordinate literal
TextCoord(group) ==
    LET pair == Split(Strip(group, {" ", "-"}))
    IN [kind |-> "literal", lat |-> CoordValue(pair[1]), lon |-> CoordValue(pair[2]),
        repr |-> group]

\* The loop of _coords_from_text over the matches from the i-th on
RECURSIVE CoordsLoop(_, _, _, _, _)
CoordsLoop(matches, i, report, coords, start) ==
    IF i > Len(matches) THEN [report |-> report, items |-> coords, start |-> start]
    ELSE CoordsLoop(matches, i + 1,
                    Replace(report, matches[i].group, <<" ">>),
                    Append(coords, TextCoord(matches[i].group)),
                    InfoStart(matches[i], start))

\* _coords_from_text(report, start)
CoordsFromText(report, start) ==
    CoordsLoop(FindIter("coord", PreBreak(report)), 1, report, <<>>, start)

\* The idents the lookup tables know, as texts
IdentText ==
    [ICA |-> <<"I", "C", "A">>, ONE |-> <<"O", "N", "E">>, AMB |-> <<"A", "M", "B">>,
     AMX |-> <<"A", "M", "X">>, IAT |-> <<"I", "A", "T">>]

\* An ident text as an element of the list given to to_coordinates
IdentOf(text) ==
    IF \E id \in DOMAIN IdentText : IdentText[id] = text
    THEN Ident(CHOOSE id \in DOMAIN IdentText : IdentText[id] = text)
    ELSE Ident("BAD")

\* CARDINAL_DEGREES: the 16 compass points, with their bearing in tenths of a degree
CardinalPoints ==
    <<<<"N">>, <<"N", "N", "E">>, <<"N", "E">>, <<"E", "N", "E">>,
      <<"E">>, <<"E", "S", "E">>, <<"S", "E">>, <<"S", "S", "E">>,
      <<"S">>, <<"S", "S", "W">>, <<"S", "W">>, <<"W", "S", "W">>,
      <<"W">>, <<"W", "N", "W">>, <<"N", "W">>, <<"N", "N", "W">>>>

CardinalDegrees(point) ==
    IF \E i \in 1..16 : CardinalPoints[i] = point
    THEN ((CHOOSE i \in 1..16 : CardinalPoints[i] = point) - 1) * 225
    ELSE -1

\* (group, *group.split()) of a match, the prefix of the reference removed
NavOf(group) ==
    LET value == RemovePrefix(RemovePrefix(Strip(group, {"-"}), <<"F", "R", "O", "M", " ">>),
                              <<"T", "O", " ">>)
    IN <<value>> \o Split(value)

\* The loop of _coords_from_navaids over the matches from the i-th on
RECURSIVE NavaidsLoop(_, _, _, _, _)
NavaidsLoop(matches, i, report, navs, start) ==
    IF i > Len(matches) THEN [report |-> report, items |-> navs, start |-> start]
    ELSE NavaidsLoop(matches, i + 1,
                     Replace(report, matches[i].group, <<" ">>),
                     Append(navs, NavOf(matches[i].group)),
                     InfoStart(matches[i], start))

\* Lines 255-270: the coordinate of one navaid reference, loc being its ident's
NavCoord(nav, loc) ==
    IF Len(nav) = 3
    THEN LET vector == nav[2]
             numIndex == RunLength(vector, 0, Digits)
             bearing == CardinalDegrees(Drop(vector, numIndex))
         IN IF bearing = -1 THEN [ok |-> FALSE]
            ELSE [ok |-> TRUE, kind |-> "vector", origin |-> loc,
                  distance |-> DigitsToInt(Take(vector, numIndex)),
                  bearing |-> bearing, repr |-> nav[1]]
    ELSE [ok |-> TRUE, kind |-> "station", lat |-> loc, repr |-> nav[1]]

\* What one pass of _bounds returns, or that it raised
PassRaised == [ok |-> FALSE]

\* _coords_from_navaids(report, start)
CoordsFromNavaids(report, start) ==
    LET loop == NavaidsLoop(FindIter("navaid", PreBreak(report)), 1, report, <<>>, start)
        navs == loop.items
        locs == ToCoordinates(
                    [i \in 1..Len(navs) |-> IdentOf(navs[i][IF Len(navs[i]) = 3 THEN 3 ELSE 2])],
                    NoCoord)
        coords == [i \in 1..Len(navs) |-> NavCoord(navs[i], locs.coords[i])]
    IN IF ~locs.ok THEN PassRaised
       ELSE IF \E i \in 1..Len(navs) : ~coords[i].ok THEN PassRaised
       ELSE [ok |-> TRUE, report |-> loop.report, items |-> coords, start |-> loop.start]

\* What _bounds returns, or that it raised
BoundsReturns(data, coords, bounds) ==
    [ok |-> TRUE, data |-> data, coords |-> coords, bounds |-> bounds]

\* Lines 281-286: the text before the first match and from the last double
\* space on, split into tokens
BoundsCut(report, start, fromIndex) ==
    Split(Slice(report, 0, IF fromIndex # -1 /\ fromIndex < start THEN fromIndex ELSE start)
              \o SliceFrom(report, RFind(report, <<" ", " ">>)))

\* Lines 280-287: what _bounds returns from what its three passes returned
BoundsOf(latterals, literals, navaids) ==
    IF ~navaids.ok THEN PassRaised
    ELSE BoundsReturns(BoundsCut(navaids.report, navaids.start,
                                 Find(navaids.report, <<"F", "R", "O", "M", " ">>)),
                       literals.items \o navaids.items, latterals.items)

\* Line 279: the pass of the navaid references
BoundsNavaids(latterals, literals) ==
    BoundsOf(latterals, literals, CoordsFromNavaids(literals.report, literals.start))

\* Line 278: the pass of the coordinate literals
BoundsLiterals(latterals) ==
    BoundsNavaids(latterals, CoordsFromText(latterals.report, latterals.start))

\* _bounds(data)
Bounds(data) == BoundsLiterals(BoundsFromLatterals(Join(data), -1))

(***************************************************************************)
(* _altitudes                                                              *)
(***************************************************************************)

\* Literals of the source
Lit_BTN == <<"B", "T", "N">>
Lit_AND == <<"A", "N", "D">>
Lit_TOP == <<"T", "O", "P">>
Lit_TOPS == <<"T", "O", "P", "S">>
Lit_BLW == <<"B", "L", "W">>
Lit_ABV == <<"A", "B", "V">>
Lit_TO == <<"T", "O">>
Lit_FL == <<"F", "L">>
Lit_FT == <<"F", "T">>
Lit_SFC == <<"S", "F", "C">>

\* core.make_number(value, repr=raw): the Number of a text, kept as the text
\* it is made from and the raw text it stands for
MakeNumber(value, raw) == [value |-> value, repr |-> raw]

\* repr=None, the default of make_number
NoRepr == <<>>

\* An absent Number, Coord, Movement or Timestamp
Absent == [absent |-> TRUE]

\* _is_altitude(value)
IsAltitude(value) ==
    IF Len(value) < 5 THEN FALSE
    ELSE IF Take(value, 4) = Lit_SFC \o <<"/">> THEN TRUE
    ELSE IF Take(value, 2) = Lit_FL /\ IsDigit(Slice(value, 2, 5)) THEN TRUE
    ELSE LET first == SplitOn(value, "/")[1]
         IN SliceFrom(first, -2) = Lit_FT /\ IsDigit(Slice(first, -5, -2))

\* _make_altitude(value, force_fl)
MakeAltitude(value, forceFl) ==
    MakeNumber(RemoveSuffix(IF forceFl THEN Lit_FL \o value ELSE value, Lit_FT), value)

\* What _altitudes returns, or that it raised (IndexError, ValueError)
AltRaised == [ok |-> FALSE]

AltReturns(data, floor, ceiling) ==
    [ok |-> TRUE, data |-> data, floor |-> floor, ceiling |-> ceiling]

\* Lines 320-329 at position i: TOP, TOPS or BLW
AltTop(data, i) ==
    IF i + 1 > Len(data) THEN AltRaised
    ELSE IF data[i + 1] = Lit_ABV
    THEN IF i + 2 > Len(data) THEN AltRaised
         ELSE AltReturns(Take(data, i - 1) \o Drop(data, i + 2), Absent,
                         MakeNumber(Lit_ABV \o <<" ">> \o data[i + 2], NoRepr))
    ELSE LET popped == IF data[i + 1] = Lit_TO THEN Pop(data, i) ELSE data
         IN IF i + 1 > Len(popped) THEN AltRaised
            ELSE AltReturns(Take(popped, i - 1) \o Drop(popped, i + 1), Absent,
                            MakeAltitude(popped[i + 1], FALSE))

\* A mutant of AltToken: the ceiling of a pair is never promoted to a flight level
AltTokenNoPromote(data, i) ==
    LET item == data[i]
    IN IF HasChar(item, "/")
       THEN LET parts == SplitOn(item, "/")
            IN IF Len(parts) # 2 THEN AltRaised
               ELSE AltReturns(Pop(data, i), MakeAltitude(parts[1], FALSE),
                               MakeAltitude(parts[2], FALSE))
       ELSE AltReturns(Pop(data, i), Absent, MakeAltitude(item, FALSE))

\* Lines 330-343 at position i: an altitude token
AltToken(data, i) ==
    LET item == data[i]
    IN IF HasChar(item, "/")
       THEN LET parts == SplitOn(item, "/")
            IN IF Len(parts) # 2 THEN AltRaised
               ELSE LET floorVal == parts[1]
                        ceilingVal == parts[2]
                        force == /\ (floorVal = Lit_SFC \/ Take(floorVal, 2) = Lit_FL)
                                 /\ Take(ceilingVal, 2) # Lit_FL
                    IN AltReturns(Pop(data, i), MakeAltitude(floorVal, FALSE),
                                  MakeAltitude(ceilingVal, force))
       ELSE AltReturns(Pop(data, i), Absent, MakeAltitude(item, FALSE))

\* The loop of _altitudes from position i on. Lines 315-319: the BTN condition
\* goes on to data[i + 2] only when BTN is the last item, which raises IndexError
RECURSIVE AltitudesFrom(_, _)
AltitudesFrom(data, i) ==
    IF i > Len(data) THEN AltReturns(data, Absent, Absent)
    ELSE IF data[i] = Lit_BTN /\ Len(data) < (i - 1) + 2 THEN AltRaised
    ELSE IF data[i] \in {Lit_TOP, Lit_TOPS, Lit_BLW} THEN AltTop(data, i)
    ELSE IF IsAltitude(data[i]) THEN AltToken(data, i)
    ELSE AltitudesFrom(data, i + 1)

\* _altitudes(data, units), units being returned as given
Altitudes(data) == AltitudesFrom(data, 1)

\* Most tokens given to _altitudes
MaxAltTokens == 4

\* Tokens given to _altitudes
AltVocabulary ==
    { Lit_BTN, Lit_AND, Lit_TOP, Lit_BLW, Lit_ABV, Lit_TO,
      <<"F", "L", "1", "8", "0">>,
      <<"S", "F", "C", "/", "F", "L", "0", "8", "0">>,
      <<"F", "L", "2", "5", "0", "/", "4", "5", "0">>,
      <<"0", "3", "0", "F", "T", "/", "0", "5", "0", "F", "T">>,
      <<"S", "F", "C", "/", "1", "/", "2">>,
      <<"T", "U", "R", "B">> }

AltInit ==
    /\ altPc = "start"
    /\ altData \in ListsUpTo(AltVocabulary, MaxAltTokens)
    /\ altOut = None
    /\ SanOff
    /\ MgrOff
    /\ PathOff
    /\ MovOff
    /\ ObsOff
    /\ CallOff

\* _sigmet_observation calls _altitudes(data, units)
CallAltitudes ==
    /\ altPc = "start"
    /\ altOut' = Altitudes(altData)
    /\ altPc' = "done"
    /\ UNCHANGED <<altData, sanVars, mgrVars, pathVars, movVars, obsVars, callVars>>

AltNext == CallAltitudes

SpecAltitude == AltInit /\ [][AltNext]_vars

\* A text as the Number the spec gives an altitude: the text without a closing
\* FT, and the raw text
AltNumber(text, raw) == [value |-> RemoveSuffix(text, Lit_FT), repr |-> raw]

\* The list without its items at positions i .. i + n - 1
Without(list, i, n) ==
    [k \in 1..(Len(list) - n) |-> IF k < i THEN list[k] ELSE list[k + n]]

\* Position i of the list holds TOP, TOPS or BLW, or an altitude literal
StartsForm(list, i) ==
    \/ list[i] \in {Lit_TOP, Lit_TOPS, Lit_BLW}
    \/ IsAltitude(list[i])

\* C8: a BTN token at position i followed by a token, the token AND and a
\* token, with no other altitude form before it, gives floor from the token
\* after BTN and ceiling from the token after AND, and exactly these four
\* tokens are removed.
C8_BtnForm ==
    altPc = "done" =>
        \A i \in 1..Len(altData) :
            ( /\ altData[i] = Lit_BTN
              /\ i + 3 <= Len(altData)
              /\ altData[i + 2] = Lit_AND
              /\ \A j \in 1..(i - 1) : ~StartsForm(altData, j) )
            => /\ altOut.ok
               /\ altOut.floor = AltNumber(altData[i + 1], altData[i + 1])
               /\ altOut.ceiling = AltNumber(altData[i + 3], altData[i + 3])
               /\ altOut.data = Without(altData, i, 4)

\* The first position of the list that starts a form other than BTN, 0 if none
FirstForm(list) ==
    IF \E i \in 1..Len(list) : StartsForm(list, i)
    THEN CHOOSE i \in 1..Len(list) :
            StartsForm(list, i) /\ \A j \in 1..(i - 1) : ~StartsForm(list, j)
    ELSE 0

\* C9: of the forms other than BTN only the first in token order is consumed:
\* a lone altitude token gives the ceiling and no floor; a token with one '/'
\* gives floor and ceiling, the ceiling with FL put before it when the floor is
\* SFC or starts with FL and the ceiling does not; TOP, TOPS or BLW followed by
\* ABV v gives the ceiling 'ABV v'; followed by an optional TO and a value it
\* gives that value as ceiling. Exactly the tokens of the form are removed.
C9_OtherForms ==
    altPc = "done" =>
        LET i == FirstForm(altData)
            n == Len(altData)
            item == altData[i]
            parts == SplitOn(item, "/")
        IN /\ (i > 0 /\ IsAltitude(item) /\ ~HasChar(item, "/")) =>
                /\ altOut.ok
                /\ altOut.floor = Absent
                /\ altOut.ceiling = AltNumber(item, item)
                /\ altOut.data = Without(altData, i, 1)
           /\ (i > 0 /\ IsAltitude(item) /\ Len(parts) = 2) =>
                /\ altOut.ok
                /\ altOut.floor = AltNumber(parts[1], parts[1])
                /\ altOut.ceiling =
                     IF /\ (parts[1] = Lit_SFC \/ StartsWith(parts[1], Lit_FL))
                        /\ ~StartsWith(parts[2], Lit_FL)
                     THEN AltNumber(Lit_FL \o parts[2], parts[2])
                     ELSE AltNumber(parts[2], parts[2])
                /\ altOut.data = Without(altData, i, 1)
           /\ (i > 0 /\ ~IsAltitude(item) /\ i + 2 <= n /\ altData[i + 1] = Lit_ABV) =>
                /\ altOut.ok
                /\ altOut.floor = Absent
                /\ altOut.ceiling.value = Lit_ABV \o <<" ">> \o altData[i + 2]
                /\ altOut.data = Without(altData, i, 3)
           /\ (i > 0 /\ ~IsAltitude(item) /\ i + 2 <= n /\ altData[i + 1] = Lit_TO) =>
                /\ altOut.ok
                /\ altOut.floor = Absent
                /\ altOut.ceiling = AltNumber(altData[i + 2], altData[i + 2])
                /\ altOut.data = Without(altData, i, 3)
           /\ (i > 0 /\ ~IsAltitude(item) /\ i + 1 <= n
                 /\ altData[i + 1] \notin {Lit_ABV, Lit_TO}) =>
                /\ altOut.ok
                /\ altOut.floor = Absent
                /\ altOut.ceiling = AltNumber(altData[i + 1], altData[i + 1])
                /\ altOut.data = Without(altData, i, 2)
           /\ (i = 0 /\ altOut.ok) =>
                /\ altOut.floor = Absent
                /\ altOut.ceiling = Absent
                /\ altOut.data = altData

\* C9 witness: a floor/ceiling pair whose ceiling is promoted, met before a
\* BLW ABV form, was consumed alone.
C9_Witness ==
    /\ altPc = "done"
    /\ altData = <<<<"T", "U", "R", "B">>, <<"F", "L", "2", "5", "0", "/", "4", "5", "0">>, Lit_BLW, Lit_ABV>>
    /\ altOut.ok
    /\ altOut.floor.value = <<"F", "L", "2", "5", "0">>
    /\ altOut.ceiling.value = <<"F", "L", "4", "5", "0">>
    /\ altOut.data = <<<<"T", "U", "R", "B">>, Lit_BLW, Lit_ABV>>

(***************************************************************************)
(* _movement                                                               *)
(***************************************************************************)

Lit_STNR == <<"S", "T", "N", "R">>
Lit_MOV == <<"M", "O", "V">>
Lit_KT == <<"K", "T">>
Lit_KMH == <<"K", "M", "H">>

\* Movement(repr, direction, speed)
MakeMovement(raw, direction, speed) ==
    [repr |-> raw, direction |-> direction, speed |-> speed]

\* What _movement returns, or that it raised (IndexError)
MovRaised == [ok |-> FALSE]

MovReturns(data, units, movement) ==
    [ok |-> TRUE, data |-> data, units |-> units, movement |-> movement]

\* Lines 196-206: MOV is at position index (1-based)
MovementAt(data, units, index) ==
    LET afterMov == Pop(data, index)
    IN IF index > Len(afterMov) THEN MovRaised
       ELSE LET direction == afterMov[index]
                afterDir == Pop(afterMov, index)
                raw == Lit_MOV \o <<" ">> \o direction
            IN IF index > Len(afterDir) THEN MovRaised
               ELSE LET ktUnit == EndsWith(afterDir[index], Lit_KT)
                        kmhUnit == EndsWith(afterDir[index], Lit_KMH)
                        speedStr == afterDir[index]
                    IN IF ktUnit \/ kmhUnit
                       THEN MovReturns(
                              Pop(afterDir, index),
                              IF kmhUnit THEN "kmh" ELSE "kt",
                              MakeMovement(
                                raw \o <<" ">> \o speedStr, direction,
                                MakeNumber(Slice(speedStr, 0,
                                                 IF kmhUnit THEN -3 ELSE -2), NoRepr)))
                       ELSE MovReturns(afterDir, units,
                                       MakeMovement(raw, direction, Absent))

\* _movement(data, units)
Movement(data, units) ==
    IF Index(data, Lit_STNR) # 0
    THEN MovReturns(Pop(data, Index(data, Lit_STNR)), units,
                    MakeMovement(Lit_STNR, Absent, MakeNumber(Lit_STNR, NoRepr)))
    ELSE IF Index(data, Lit_MOV) = 0 THEN MovReturns(data, units, Absent)
    ELSE MovementAt(data, units, Index(data, Lit_MOV))

\* Most tokens given to _movement
MaxMovTokens == 4

\* Tokens given to _movement
MovVocabulary ==
    { Lit_STNR, Lit_MOV,
      <<"N", "E">>,
      <<"2", "5", "K", "T">>,
      <<"3", "0", "K", "M", "H">>,
      <<"T", "U", "R", "B">> }

\* Units.wind_speed
WindSpeedUnits == {"kt", "kmh"}

MovInit ==
    /\ movPc = "start"
    /\ movData \in ListsUpTo(MovVocabulary, MaxMovTokens)
    /\ movUnits \in WindSpeedUnits
    /\ movOut = None
    /\ SanOff
    /\ MgrOff
    /\ PathOff
    /\ AltOff
    /\ ObsOff
    /\ CallOff

\* _sigmet_observation calls _movement(data, units)
CallMovement ==
    /\ movPc = "start"
    /\ movOut' = Movement(movData, movUnits)
    /\ movPc' = "done"
    /\ UNCHANGED <<movData, movUnits, sanVars, mgrVars, pathVars, altVars, obsVars, callVars>>

MovNext == CallMovement

SpecMovement == MovInit /\ [][MovNext]_vars

\* C10: STNR gives a stationary movement with no direction, only STNR being
\* removed; otherwise MOV followed by a direction gives a movement with that
\* direction: a following token ending in KT or KMH is consumed as the speed
\* and sets the wind-speed unit, and without one (also when the direction is
\* the last token) the speed is absent and the units are unchanged; with
\* neither STNR nor MOV nothing changes and the movement is absent.
C10_Movement ==
    movPc = "done" =>
        LET stnr == Index(movData, Lit_STNR)
            mov == Index(movData, Lit_MOV)
            n == Len(movData)
            isSpeed(t) == EndsWith(t, Lit_KT) \/ EndsWith(t, Lit_KMH)
        IN /\ stnr # 0 =>
                /\ movOut.ok
                /\ movOut.movement.repr = Lit_STNR
                /\ movOut.movement.direction = Absent
                /\ movOut.data = Without(movData, stnr, 1)
                /\ movOut.units = movUnits
           /\ (stnr = 0 /\ mov = 0) =>
                /\ movOut.ok
                /\ movOut.movement = Absent
                /\ movOut.data = movData
                /\ movOut.units = movUnits
           /\ (stnr = 0 /\ mov # 0 /\ mov + 2 <= n /\ isSpeed(movData[mov + 2])) =>
                /\ movOut.ok
                /\ movOut.movement.direction = movData[mov + 1]
                /\ movOut.movement.speed # Absent
                /\ movOut.units = IF EndsWith(movData[mov + 2], Lit_KMH) THEN "kmh" ELSE "kt"
                /\ movOut.data = Without(movData, mov, 3)
           /\ (stnr = 0 /\ mov # 0 /\ mov + 1 <= n
                 /\ (mov + 2 <= n => ~isSpeed(movData[mov + 2]))) =>
                /\ movOut.ok
                /\ movOut.movement.direction = movData[mov + 1]
                /\ movOut.movement.speed = Absent
                /\ movOut.units = movUnits
                /\ movOut.data = Without(movData, mov, 2)

(***************************************************************************)
(* _observations and _sigmet_observation                                   *)
(***************************************************************************)

Lit_AT == <<"A", "T">>
Lit_FCST == <<"F", "C", "S", "T">>
Lit_UNTIL == <<"U", "N", "T", "I", "L">>
Lit_VALID == <<"V", "A", "L", "I", "D">>
Lit_OUTLOOK == <<"O", "U", "T", "L", "O", "O", "K">>
Lit_OBS == <<"O", "B", "S">>
Lit_PSN == <<"P", "S", "N">>

\* _first_index(data, *targets): the 0-based index of the first target, in the
\* order of the targets, that the list holds; -1 when it holds none
RECURSIVE FirstIndex(_, _)
FirstIndex(data, targets) ==
    IF targets = <<>> THEN -1
    ELSE IF Index(data, Head(targets)) # 0 THEN Index(data, Head(targets)) - 1
    ELSE FirstIndex(data, Tail(targets))

\* list.remove(x) with ValueError suppressed
Remove(list, x) == IF Index(list, x) = 0 THEN list ELSE Pop(list, Index(list, x))

\* core.make_timestamp(text): None for an empty text, else a Timestamp of the text
MakeTimestamp(text, timeOnly) ==
    IF text = <<>> THEN Absent ELSE [repr |-> text, timeOnly |-> timeOnly]

\* What a sub-extractor returns, or that it raised
StepRaised == [ok |-> FALSE]

TimeReturns(data, start, end) ==
    [ok |-> TRUE, data |-> data, start |-> start, end |-> end]

\* Lines 154-161: the markers are removed and the observed time is assigned
TimeEnd(data, startItem, start, end, observed) ==
    LET rest == Remove(Remove(Remove(data, Lit_FCST), Lit_OUTLOOK), Lit_VALID)
    IN IF observed = Absent THEN TimeReturns(rest, start, end)
       ELSE IF startItem \in {Lit_UNTIL, Lit_VALID} THEN TimeReturns(rest, start, observed)
       ELSE TimeReturns(rest, observed, end)

\* _time(data)
Time(data) ==
    LET index == FirstIndex(data, <<Lit_AT, Lit_FCST, Lit_UNTIL, Lit_VALID, Lit_OUTLOOK>>)
    IN IF index = -1 THEN TimeReturns(data, Absent, Absent)
       ELSE LET startItem == data[index + 1]
                popped == Pop(data, index + 1)
            IN IF index + 1 > Len(popped) THEN StepRaised
               ELSE LET item == popped[index + 1]
                        parts == SplitOn(item, "-")
                        taken == Pop(popped, index + 1)
                    IN IF HasChar(item, "-")
                       THEN IF Len(parts) # 2 THEN StepRaised
                            ELSE TimeEnd(taken, parts[1], MakeTimestamp(parts[1], FALSE),
                                         MakeTimestamp(parts[2], FALSE), Absent)
                       ELSE IF Len(item) >= 4 /\ IsDigit(Take(item, 4))
                       THEN TimeEnd(IF index > 0 /\ taken[index] = Lit_OBS
                                    THEN Pop(taken, index) ELSE taken,
                                    startItem, Absent, Absent, MakeTimestamp(item, TRUE))
                       ELSE TimeEnd(popped, startItem, Absent, Absent, Absent)

PositionReturns(data, position) == [ok |-> TRUE, data |-> data, position |-> position]

\* _position(data)
Position(data) ==
    LET index == Index(data, Lit_PSN)
        popped == Pop(data, index)
    IN IF index = 0 THEN PositionReturns(data, Absent)
       ELSE IF index + 1 > Len(popped) THEN StepRaised
       ELSE LET lat == CoordValue(popped[index])
                lon == CoordValue(popped[index + 1])
            IN IF ~lat.ok \/ ~lon.ok THEN StepRaised
               ELSE PositionReturns(Pop(Pop(popped, index), index),
                                    [kind |-> "literal", lat |-> lat, lon |-> lon,
                                     repr |-> popped[index] \o <<" ">> \o popped[index + 1]])

\* Code(repr, value)
Code(raw, value) == [repr |-> raw, value |-> value]

\* INTENSITY: rows of the intensity / trend table
IntensityTable ==
    <<[key |-> <<"N", "C">>, value |-> "No change"],
      [key |-> <<"I", "N", "T", "S", "F">>, value |-> "Intensifying"],
      [key |-> <<"W", "K", "N">>, value |-> "Weakening"]>>

\* WEATHER_TYPES: rows of the hazard table, in the order of the table
WeatherTypes ==
    <<[key |-> <<"E", "M", "B", "D", " ", "T", "S">>, value |-> "Embedded thunderstorms"],
      [key |-> <<"T", "S">>, value |-> "Thunderstorms"],
      [key |-> <<"T", "U", "R", "B">>, value |-> "Turbulence"],
      [key |-> <<"I", "C", "E">>, value |-> "Icing"]>>

CodeReturns(data, code) == [ok |-> TRUE, data |-> data, code |-> code]

\* _intensity(data)
Intensity(data) ==
    IF data = <<>> THEN CodeReturns(data, Absent)
    ELSE IF \E i \in 1..Len(IntensityTable) : IntensityTable[i].key = data[Len(data)]
    THEN LET row == CHOOSE i \in 1..Len(IntensityTable) :
                        IntensityTable[i].key = data[Len(data)]
         IN CodeReturns(Take(data, Len(data) - 1),
                        Code(data[Len(data)], IntensityTable[row].value))
    ELSE CodeReturns(data, Absent)

\* The loop of _weather_type from the i-th row of the table on
RECURSIVE WeatherTypeFrom(_, _)
WeatherTypeFrom(data, i) ==
    IF i > Len(WeatherTypes) THEN CodeReturns(data, Absent)
    ELSE IF Find(Join(data), WeatherTypes[i].key) # -1
    THEN CodeReturns(Split(Replace(Join(data), WeatherTypes[i].key, <<>>)),
                     Code(WeatherTypes[i].key, WeatherTypes[i].value))
    ELSE WeatherTypeFrom(data, i + 1)

\* _weather_type(data)
WeatherType(data) == WeatherTypeFrom(data, 1)

\* _clean_flags(data)
CleanFlags(data) == SelectSeq(data, LAMBDA i : i[1] # "<")

\* The sub-extractors of _sigmet_observation, in the order of their calls
StepNames == <<"time", "position", "bounds", "movement", "intensity", "altitudes", "weather">>

\* Units(**IN_UNITS).wind_speed
InUnits == "kt"

\* The fields of an observation before any sub-extractor has run
NoFields ==
    [type |-> Absent, start_time |-> Absent, end_time |-> Absent, position |-> Absent,
     floor |-> Absent, ceiling |-> Absent, coords |-> <<>>, bounds |-> <<>>,
     movement |-> Absent, intensity |-> Absent]

\* What the named sub-extractor returns for the buffer
StepResult(name, data, units) ==
    IF name = "time" THEN Time(data)
    ELSE IF name = "position" THEN Position(data)
    ELSE IF name = "bounds" THEN Bounds(data)
    ELSE IF name = "movement" THEN Movement(data, units)
    ELSE IF name = "intensity" THEN Intensity(data)
    ELSE IF name = "altitudes" THEN Altitudes(data)
    ELSE WeatherType(data)

\* The fields after the named sub-extractor returned
StepFields(name, fields, result) ==
    IF name = "time"
    THEN [fields EXCEPT !.start_time = result.start, !.end_time = result.end]
    ELSE IF name = "position" THEN [fields EXCEPT !.position = result.position]
    ELSE IF name = "bounds"
    THEN [fields EXCEPT !.coords = result.coords, !.bounds = result.bounds]
    ELSE IF name = "movement" THEN [fields EXCEPT !.movement = result.movement]
    ELSE IF name = "intensity" THEN [fields EXCEPT !.intensity = result.code]
    ELSE IF name = "altitudes"
    THEN [fields EXCEPT !.floor = result.floor, !.ceiling = result.ceiling]
    ELSE [fields EXCEPT !.type = result.code]

\* The units after the named sub-extractor returned
StepUnits(name, units, result) == IF name = "movement" THEN result.units ELSE units

\* AirSigObservation(...): the fields and the tokens no sub-extractor claimed
MakeObservation(fields, data) == [fields |-> fields, other |-> CleanFlags(data)]

\* _sigmet_observation(data, units) from its k-th sub-extractor on
RECURSIVE SigmetObservationFrom(_, _, _, _)
SigmetObservationFrom(k, data, units, fields) ==
    IF k > Len(StepNames)
    THEN [ok |-> TRUE, struct |-> MakeObservation(fields, data), units |-> units]
    ELSE LET result == StepResult(StepNames[k], data, units)
         IN IF ~result.ok THEN StepRaised
            ELSE SigmetObservationFrom(k + 1, result.data,
                                       StepUnits(StepNames[k], units, result),
                                       StepFields(StepNames[k], fields, result))

\* _sigmet_observation(data, units)
SigmetObservation(data, units) == SigmetObservationFrom(1, data, units, NoFields)

\* The calls of _sigmet_observation that _observations makes, in order
ObservationCalls(data) ==
    LET forecastIndex == FirstIndex(data, <<Lit_FCST, Lit_OUTLOOK>>)
    IN IF forecastIndex = -1 THEN <<[role |-> "observation", data |-> data]>>
       ELSE IF forecastIndex < 6 THEN <<[role |-> "forecast", data |-> data]>>
       ELSE <<[role |-> "observation", data |-> Take(data, forecastIndex)],
              [role |-> "forecast", data |-> Drop(data, forecastIndex)]>>

\* Longest list of marker and filler tokens given to _observations
MaxObsTokens == 8

\* Longest list of tokens of the sub-extractors given to _observations
MaxObsShort == 3

\* The markers of a forecast, and a filler
MarkerVocabulary == {Lit_FCST, Lit_OUTLOOK, <<"T", "U", "R", "B">>}

\* Tokens the sub-extractors look for
ObsVocabulary ==
    { Lit_FCST, Lit_PSN, Lit_STNR, Lit_TO,
      <<"1", "2", "0", "0">>,
      <<"N", "1", "4", "2", "9">>,
      <<"W", "0", "9", "0", "5", "3">>,
      <<"N", "W">>,
      <<"O", "F">>,
      <<"E", "0", "1", "2", "3", "4">>,
      <<"I", "C", "A">>,
      <<"N", "C">>,
      <<"F", "L", "1", "8", "0">>,
      <<"T", "U", "R", "B">>,
      <<"<", "e", "l", "i", "p", ">">> }

\* Longest list of tokens of boundaries given to _observations
MaxObsBounds == 4

\* Tokens of lateral clauses, coordinate literals and navaid references
BoundsVocabulary ==
    { Lit_TO, <<"-">>,
      <<"5", "N", "W">>,
      <<"N", "W">>,
      <<"O", "F">>,
      <<"E", "0", "1", "2", "3", "4">>,
      <<"N", "1", "4", "2", "9">>,
      <<"W", "0", "9", "0", "5", "3">>,
      <<"I", "C", "A">>,
      <<"T", "U", "R", "B">> }

\* The token lists given to _observations
ObsInputs ==
    ListsUpTo(MarkerVocabulary, MaxObsTokens)
        \cup ListsUpTo(ObsVocabulary, MaxObsShort)
        \cup ListsUpTo(BoundsVocabulary, MaxObsBounds)

ObsInit ==
    /\ obsPc = "start"
    /\ obsInput \in ObsInputs
    /\ obsUnits = InUnits
    /\ obsCalls = <<>>
    /\ obsStep = 0
    /\ obsPrev = <<>>
    /\ obsData = <<>>
    /\ obsFields = NoFields
    /\ obsOut = [observation |-> Absent, forecast |-> Absent]
    /\ SanOff
    /\ MgrOff
    /\ PathOff
    /\ AltOff
    /\ MovOff
    /\ CallOff

\* _observations(data, units) up to its first call of _sigmet_observation
Observations ==
    /\ obsPc = "start"
    /\ obsCalls' = ObservationCalls(obsInput)
    /\ obsData' = obsCalls'[1].data
    /\ obsPrev' = obsCalls'[1].data
    /\ obsStep' = 1
    /\ obsPc' = "run"
    /\ UNCHANGED <<obsInput, obsUnits, obsFields, obsOut, sanVars, mgrVars, pathVars, altVars, movVars, callVars>>

\* A sub-extractor of _sigmet_observation returned, or raised, and the
\* exception leaves _observations
SubExtractorEnds(name, result) ==
    IF ~result.ok
    THEN /\ obsPc' = "raised"
         /\ UNCHANGED <<obsStep, obsPrev, obsData, obsFields, obsUnits>>
    ELSE /\ obsPrev' = obsData
         /\ obsData' = result.data
         /\ obsFields' = StepFields(name, obsFields, result)
         /\ obsUnits' = StepUnits(name, obsUnits, result)
         /\ obsStep' = obsStep + 1
         /\ obsPc' = obsPc

\* One sub-extractor of _sigmet_observation takes the buffer and returns the
\* rest of it
SubExtractor(name) ==
    /\ obsPc = "run"
    /\ obsStep <= Len(StepNames)
    /\ StepNames[obsStep] = name
    /\ SubExtractorEnds(name, StepResult(name, obsData, obsUnits))
    /\ UNCHANGED <<obsInput, obsCalls, obsOut, sanVars, mgrVars, pathVars, altVars, movVars, callVars>>

TimeStep == SubExtractor("time")
PositionStep == SubExtractor("position")
BoundsStep == SubExtractor("bounds")
MovementStep == SubExtractor("movement")
IntensityStep == SubExtractor("intensity")
AltitudesStep == SubExtractor("altitudes")
WeatherTypeStep == SubExtractor("weather")

\* _sigmet_observation builds its AirSigObservation and returns to
\* _observations, which makes its next call or returns
ReturnObservation ==
    /\ obsPc = "run"
    /\ obsStep = Len(StepNames) + 1
    /\ obsOut' = [obsOut EXCEPT ![obsCalls[1].role] = MakeObservation(obsFields, obsData)]
    /\ obsCalls' = Tail(obsCalls)
    /\ IF obsCalls' = <<>>
       THEN /\ obsPc' = "done"
            /\ UNCHANGED <<obsStep, obsPrev, obsData, obsFields>>
       ELSE /\ obsPc' = "run"
            /\ obsStep' = 1
            /\ obsData' = obsCalls'[1].data
            /\ obsPrev' = obsCalls'[1].data
            /\ obsFields' = NoFields
    /\ UNCHANGED <<obsInput, obsUnits, sanVars, mgrVars, pathVars, altVars, movVars, callVars>>

ObsNext ==
    \/ Observations
    \/ TimeStep
    \/ PositionStep
    \/ BoundsStep
    \/ MovementStep
    \/ IntensityStep
    \/ AltitudesStep
    \/ WeatherTypeStep
    \/ ReturnObservation

SpecObservation == ObsInit /\ [][ObsNext]_vars

\* The 0-based index of the earliest FCST or OUTLOOK token, -1 when there is none
EarliestMarker(data) ==
    IF \E i \in 1..Len(data) : data[i] \in {Lit_FCST, Lit_OUTLOOK}
    THEN (CHOOSE i \in 1..Len(data) :
              /\ data[i] \in {Lit_FCST, Lit_OUTLOOK}
              /\ \A j \in 1..(i - 1) : data[j] \notin {Lit_FCST, Lit_OUTLOOK}) - 1
    ELSE -1

\* The tokens produce the observation: it is what _sigmet_observation makes of them
Produces(data, units, observation) ==
    /\ SigmetObservation(data, units).ok
    /\ observation = SigmetObservation(data, units).struct

\* C2: with m the position of the earliest FCST or OUTLOOK token of the list
\* given to _observations: without such a token the whole list produces the
\* current observation and the forecast is absent; with m < 6 the whole list
\* produces the forecast and the current observation is absent; with m >= 6 the
\* tokens before m produce the current observation and the tokens from m on the
\* forecast; and the observation and the forecast are never both absent.
C2_ObservationSplit ==
    obsPc = "done" =>
        LET m == EarliestMarker(obsInput)
        IN /\ m = -1 =>
                /\ Produces(obsInput, InUnits, obsOut.observation)
                /\ obsOut.forecast = Absent
           /\ (m >= 0 /\ m < 6) =>
                /\ Produces(obsInput, InUnits, obsOut.forecast)
                /\ obsOut.observation = Absent
           /\ m >= 6 =>
                /\ Produces(Take(obsInput, m), InUnits, obsOut.observation)
                /\ SigmetObservation(Take(obsInput, m), InUnits).ok
                /\ Produces(Drop(obsInput, m),
                            SigmetObservation(Take(obsInput, m), InUnits).units,
                            obsOut.forecast)
           /\ ~(obsOut.observation = Absent /\ obsOut.forecast = Absent)

\* a is a subsequence of b: the items of a are items of b, in the order of b
RECURSIVE IsSubsequence(_, _)
IsSubsequence(a, b) ==
    IF a = <<>> THEN TRUE
    ELSE IF b = <<>> THEN FALSE
    ELSE IF Head(a) = Head(b) THEN IsSubsequence(Tail(a), Tail(b))
    ELSE IsSubsequence(a, Tail(b))

\* C3: at every step of _sigmet_observation the token buffer a sub-extractor
\* returns is a subsequence of the buffer it received: no token is created,
\* duplicated or reordered.
C3_BufferShrinks ==
    obsPc \in {"run", "done"} => IsSubsequence(obsData, obsPrev)

(***************************************************************************)
(* _coord_value on coordinate literals                                     *)
(***************************************************************************)

\* \d{4} and \d{5} of _COORD_PATTERN: the digits of a latitude and of a longitude
LatDigits == 4
LonDigits == 5

\* The digits the literals of the model are made of
CoordDigits == {"0", "1", "4", "5", "6", "9"}

\* The texts of n digits
DigitTexts(n) == [1..n -> CoordDigits]

\* The coordinate literals _COORD_PATTERN matches: [NS]\d{4} and [EW]\d{5}
CoordLiterals ==
    {<<h>> \o d : h \in {"N", "S"}, d \in DigitTexts(LatDigits)}
        \cup {<<h>> \o d : h \in {"E", "W"}, d \in DigitTexts(LonDigits)}

CoordValueInit ==
    /\ callPc = "start"
    /\ callFn = "_coord_value"
    /\ callArg \in CoordLiterals
    /\ callOut = None
    /\ SanOff
    /\ MgrOff
    /\ PathOff
    /\ AltOff
    /\ MovOff
    /\ ObsOff

\* _coords_from_text calls _coord_value(lat) or _coord_value(lon)
CallCoordValue ==
    /\ callPc = "start"
    /\ callFn = "_coord_value"
    /\ callOut' = CoordValue(callArg)
    /\ callPc' = "done"
    /\ UNCHANGED <<callFn, callArg, sanVars, mgrVars, pathVars, altVars, movVars, obsVars>>

CoordValueNext == CallCoordValue

SpecCoordValue == CoordValueInit /\ [][CoordValueNext]_vars

\* 10 to the power n
RECURSIVE PowerOfTen(_)
PowerOfTen(n) == IF n = 0 THEN 1 ELSE 10 * PowerOfTen(n - 1)

\* A float of at most n fraction digits as an integer of units of 10^-n
Scaled(float, n) ==
    (IF float.neg THEN -1 ELSE 1)
        * (float.whole * PowerOfTen(n)
              + DigitsToInt(float.frac) * PowerOfTen(n - Len(float.frac)))

\* The digits of a literal as an integer, negative for S and W
SignedDigits(literal) ==
    (IF literal[1] \in {"S", "W"} THEN -1 ELSE 1) * DigitsToInt(Tail(literal))

\* C11: the digits after the hemisphere letter of a coordinate literal map to
\* DD.dd for a latitude and to DDD.dd for a longitude, the sign flipped for S
\* and W: in hundredths of a degree the value is the integer the digits spell.
\* N4409 E01506 decodes to (44.09, 15.06).
C11_CoordValue ==
    callPc = "done" =>
        /\ callOut.ok
        /\ Len(callOut.frac) <= 2
        /\ Scaled(callOut, 2) = SignedDigits(callArg)

\* C11 witness: the longitude literal E01506 was converted to 15.06 degrees.
C11_Witness ==
    /\ callPc = "done"
    /\ callArg = <<"E", "0", "1", "5", "0", "6">>
    /\ callOut.ok
    /\ Scaled(callOut, 2) = 1506

\* C11 as stated: the digits map to DD.dddd, two digits of degrees and the
\* rest a fraction, so that E01506 decodes to 1.506.
C11_CoordValueStated ==
    callPc = "done" =>
        /\ callOut.ok
        /\ Len(callOut.frac) <= Len(callArg) - 3
        /\ Scaled(callOut, Len(callArg) - 3) = SignedDigits(callArg)

(***************************************************************************)
(* _region                                                                 *)
(***************************************************************************)

Lit_FIR == <<"F", "I", "R">>
Lit_CTA == <<"C", "T", "A">>
Lit_FROM == <<"F", "R", "O", "M">>

\* Lines 128-132: the length of the leading run of 2-character items
RECURSIVE StateRun(_)
StateRun(data) ==
    IF data # <<>> /\ Len(Head(data)) = 2 THEN 1 + StateRun(Tail(data)) ELSE 0

\* _region(data)
Region(data) ==
    LET marker == FirstIndex(data, <<Lit_FIR, Lit_CTA, Lit_FROM>>) + 1
        nameEnd == IF marker = 0 THEN StateRun(data) ELSE marker
    IN [data |-> Drop(data, nameEnd), name |-> Join(Take(data, nameEnd))]

\* Most tokens given to _region
MaxRegionTokens == 4

\* Tokens given to _region
RegionVocabulary ==
    { Lit_FIR, Lit_CTA, Lit_FROM,
      <<"T", "X">>,
      <<"O", "K">>,
      <<"T", "U", "R", "B">> }

RegionInit ==
    /\ callPc = "start"
    /\ callFn = "_region"
    /\ callArg \in ListsUpTo(RegionVocabulary, MaxRegionTokens)
    /\ callOut = None
    /\ SanOff
    /\ MgrOff
    /\ PathOff
    /\ AltOff
    /\ MovOff
    /\ ObsOff

\* parse calls _region(data)
CallRegion ==
    /\ callPc = "start"
    /\ callFn = "_region"
    /\ callOut' = Region(callArg)
    /\ callPc' = "done"
    /\ UNCHANGED <<callFn, callArg, sanVars, mgrVars, pathVars, altVars, movVars, obsVars>>

RegionNext == CallRegion

SpecRegion == RegionInit /\ [][RegionNext]_vars

\* The position of the earliest item of the list that is in the set, 0 when
\* there is none
EarliestOf(data, items) ==
    IF \E i \in 1..Len(data) : data[i] \in items
    THEN CHOOSE i \in 1..Len(data) :
             /\ data[i] \in items
             /\ \A j \in 1..(i - 1) : data[j] \notin items
    ELSE 0

\* C12: with k the position of the earliest FIR, CTA or FROM token, the region
\* name is the join of the tokens up to and including k when that token is FIR
\* or CTA, and of the tokens before k when it is FROM; without such a token it
\* is the join of the leading run of 2-character tokens. The returned list is
\* the input without the tokens of the name at its front.
C12_Region ==
    callPc = "done" =>
        LET k == EarliestOf(callArg, {Lit_FIR, Lit_CTA, Lit_FROM})
            n == IF k = 0 THEN StateRun(callArg)
                 ELSE IF callArg[k] = Lit_FROM THEN k - 1
                 ELSE k
        IN /\ callOut.name = Join(Take(callArg, n))
           /\ callOut.data = Drop(callArg, n)

(***************************************************************************)
(* _time                                                                   *)
(***************************************************************************)

\* Most tokens given to _time
MaxTimeTokens == 4

\* Tokens given to _time
TimeVocabulary ==
    { Lit_AT, Lit_FCST, Lit_UNTIL, Lit_VALID, Lit_OUTLOOK, Lit_OBS,
      <<"1", "2", "0", "0">>,
      <<"1", "2", "-", "1", "8">>,
      <<"1", "-", "2", "-", "3">>,
      <<"T", "U", "R", "B">> }

TimeInit ==
    /\ callPc = "start"
    /\ callFn = "_time"
    /\ callArg \in ListsUpTo(TimeVocabulary, MaxTimeTokens)
    /\ callOut = None
    /\ SanOff
    /\ MgrOff
    /\ PathOff
    /\ AltOff
    /\ MovOff
    /\ ObsOff

\* _sigmet_observation calls _time(data)
CallTime ==
    /\ callPc = "start"
    /\ callFn = "_time"
    /\ callOut' = Time(callArg)
    /\ callPc' = "done"
    /\ UNCHANGED <<callFn, callArg, sanVars, mgrVars, pathVars, altVars, movVars, obsVars>>

TimeNext == CallTime

SpecTime == TimeInit /\ [][TimeNext]_vars

TimeMarkers == {Lit_AT, Lit_FCST, Lit_UNTIL, Lit_VALID, Lit_OUTLOOK}

\* C13: with M the marker among AT, FCST, UNTIL, VALID, OUTLOOK that occurs
\* first in the list given to _time and t the token after it: when t holds a
\* '-' the start and the end are the two halves of t; otherwise when t begins
\* with four digits it is one observed time, the end when M is UNTIL or VALID
\* and the start otherwise; in every other case, M being the last token
\* included, both times are absent. Without a marker the list is returned
\* unchanged and both times are absent.
C13_Time ==
    callPc = "done" =>
        LET k == EarliestOf(callArg, TimeMarkers)
            t == callArg[k + 1]
        IN /\ callOut.ok
           /\ k = 0 =>
                /\ callOut.data = callArg
                /\ callOut.start = Absent
                /\ callOut.end = Absent
           /\ (k # 0 /\ k < Len(callArg) /\ HasChar(t, "-")) =>
                /\ Len(SplitOn(t, "-")) = 2
                /\ callOut.start = MakeTimestamp(SplitOn(t, "-")[1], FALSE)
                /\ callOut.end = MakeTimestamp(SplitOn(t, "-")[2], FALSE)
           /\ (k # 0 /\ k < Len(callArg) /\ ~HasChar(t, "-")
                 /\ Len(t) >= 4 /\ IsDigit(Take(t, 4))) =>
                IF callArg[k] \in {Lit_UNTIL, Lit_VALID}
                THEN callOut.start = Absent /\ callOut.end = MakeTimestamp(t, TRUE)
                ELSE callOut.start = MakeTimestamp(t, TRUE) /\ callOut.end = Absent
           /\ (k # 0 /\ (k = Len(callArg)
                            \/ (~HasChar(t, "-") /\ ~(Len(t) >= 4 /\ IsDigit(Take(t, 4)))))) =>
                /\ callOut.start = Absent
                /\ callOut.end = Absent

(***************************************************************************)
(* _spacetime                                                              *)
(***************************************************************************)

Lit_WA == <<"W", "A">>

\* An Optional[str]: no item for None, one item for a text
NoText == <<>>
Some(text) == <<text>>

\* What _spacetime returns, or that it raised (IndexError, ValueError)
SpacetimeRaised == [ok |-> FALSE]

\* Lines 109-113: the station and the return, the times being taken
SpacetimeStation(data, area, reportType, startTime, endTime) ==
    IF data = <<>> THEN SpacetimeRaised
    ELSE [ok |-> TRUE,
          data |-> IF EndsWith(data[1], <<"-">>) THEN Tail(data) ELSE data,
          area |-> area, report_type |-> reportType,
          start_time |-> startTime, end_time |-> endTime,
          station |-> IF EndsWith(data[1], <<"-">>) THEN Some(data[1]) ELSE NoText]

\* Lines 102-108: the times, data being the tokens after VALID
SpacetimeTimes(data, area, reportType) ==
    IF data = <<>> THEN SpacetimeRaised
    ELSE IF data[1] = Lit_UNTIL
    THEN IF Len(data) < 2 THEN SpacetimeRaised
         ELSE SpacetimeStation(Drop(data, 2), area, reportType, NoText, Some(data[2]))
    ELSE IF Len(SplitOn(data[1], IF HasChar(data[1], "-") THEN "-" ELSE "/")) # 2
    THEN SpacetimeRaised
    ELSE SpacetimeStation(Tail(data), area, reportType,
             Some(SplitOn(data[1], IF HasChar(data[1], "-") THEN "-" ELSE "/")[1]),
             Some(SplitOn(data[1], IF HasChar(data[1], "-") THEN "-" ELSE "/")[2]))

\* The position of the last item of the list equal to x, 0 when there is none
LastIndex(list, x) ==
    IF \E i \in 1..Len(list) : list[i] = x
    THEN CHOOSE i \in 1..Len(list) : list[i] = x /\ \A j \in (i + 1)..Len(list) : list[j] # x
    ELSE 0

\* A mutant of SpacetimeValid: the last VALID of the list is used
SpacetimeValidLast(data, area) ==
    IF LastIndex(data, Lit_VALID) = 0 THEN SpacetimeRaised
    ELSE SpacetimeTimes(Drop(data, LastIndex(data, Lit_VALID)), area,
                        Join(Take(data, LastIndex(data, Lit_VALID) - 1)))

\* Lines 99-101: the report type, data being the tokens after the area and the
\* airmet type
SpacetimeValid(data, area) ==
    IF Index(data, Lit_VALID) = 0 THEN SpacetimeRaised
    ELSE SpacetimeTimes(Drop(data, Index(data, Lit_VALID)), area,
                        Join(Take(data, Index(data, Lit_VALID) - 1)))

\* _spacetime(data)
Spacetime(data) ==
    IF Len(data) < 2 THEN SpacetimeRaised
    ELSE IF data[2] = Lit_WA /\ Len(data) < 3 THEN SpacetimeRaised
    ELSE IF data[2] = Lit_WA /\ IsDigit(data[3])
    THEN SpacetimeValid(Drop(data, 3), Slice(data[1], 0, -1))
    ELSE SpacetimeValid(Tail(data), data[1])

\* Most tokens of a report type, and most tokens from VALID on
MaxTypeTokens == 1
MaxValidTokens == 4

\* The heads of the token lists given to _spacetime: the area, the airmet type
\* and the time repeat, or less
SpacetimeHeads ==
    { <<>>,
      <<<<"S", "L", "C", "Z">>>>,
      <<<<"S", "L", "C", "Z">>, Lit_WA>>,
      <<<<"S", "L", "C", "Z">>, Lit_WA, <<"1", "2">>>>,
      <<<<"S", "L", "C", "Z">>, Lit_WA, <<"T", "S">>>>,
      <<<<"S", "L", "C">>, <<"1", "2">>>> }

\* The tokens of a report type
TypeVocabulary == {<<"S", "I", "G", "M", "E", "T">>}

\* The tokens from VALID on
ValidVocabulary ==
    { Lit_VALID, Lit_UNTIL,
      <<"1", "2", "-", "1", "8">>,
      <<"1", "2", "/", "1", "8">>,
      <<"1", "-", "2", "-", "3">>,
      <<"K", "S", "L", "-">>,
      <<"T", "U", "R", "B">> }

SpacetimeInit ==
    /\ callPc = "start"
    /\ callFn = "_spacetime"
    /\ callArg \in {head \o type \o rest :
                       head \in SpacetimeHeads,
                       type \in ListsUpTo(TypeVocabulary, MaxTypeTokens),
                       rest \in ListsUpTo(ValidVocabulary, MaxValidTokens)}
    /\ callOut = None
    /\ SanOff
    /\ MgrOff
    /\ PathOff
    /\ AltOff
    /\ MovOff
    /\ ObsOff

\* parse calls _spacetime(data)
CallSpacetime ==
    /\ callPc = "start"
    /\ callFn = "_spacetime"
    /\ callOut' = Spacetime(callArg)
    /\ callPc' = "done"
    /\ UNCHANGED <<callFn, callArg, sanVars, mgrVars, pathVars, altVars, movVars, obsVars>>

SpacetimeNext == CallSpacetime

SpecSpacetime == SpacetimeInit /\ [][SpacetimeNext]_vars

\* The tokens after the area code, the WA and numeric time repeat pair dropped
AfterArea(data) ==
    IF Len(data) >= 3 /\ data[2] = Lit_WA /\ IsDigit(data[3])
    THEN Drop(data, 3) ELSE Drop(data, 1)

\* The tokens after the first VALID of the list, which holds one
AfterValid(data) == Drop(AfterArea(data), EarliestOf(AfterArea(data), {Lit_VALID}))

\* The two parts of the times token, split on '-', or on '/' when it has no '-'
TimeParts(token) == SplitOn(token, IF HasChar(token, "-") THEN "-" ELSE "/")

\* The tokens after the times, the list holding a VALID and a token after it
AfterTimes(data) ==
    IF AfterValid(data)[1] = Lit_UNTIL THEN Drop(AfterValid(data), 2)
    ELSE Drop(AfterValid(data), 1)

\* What the claim says of a call that returned
SpacetimeStated(data, out) ==
    /\ out.report_type =
           Join(Take(AfterArea(data), EarliestOf(AfterArea(data), {Lit_VALID}) - 1))
    /\ IF AfterValid(data)[1] = Lit_UNTIL
       THEN /\ out.start_time = NoText
            /\ Len(AfterValid(data)) >= 2
            /\ out.end_time = Some(AfterValid(data)[2])
       ELSE /\ Len(TimeParts(AfterValid(data)[1])) = 2
            /\ out.start_time = Some(TimeParts(AfterValid(data)[1])[1])
            /\ out.end_time = Some(TimeParts(AfterValid(data)[1])[2])
    /\ IF AfterTimes(data) # <<>> /\ EndsWith(AfterTimes(data)[1], <<"-">>)
       THEN out.station = Some(AfterTimes(data)[1]) /\ out.data = Tail(AfterTimes(data))
       ELSE out.station = NoText /\ out.data = AfterTimes(data)

\* The tokens are all there: a VALID, the token or the UNTIL and token that
\* give the times, two parts of the times token, and a token after the times
SpacetimeComplete(data) ==
    /\ EarliestOf(AfterArea(data), {Lit_VALID}) # 0
    /\ AfterValid(data) # <<>>
    /\ IF AfterValid(data)[1] = Lit_UNTIL
       THEN Len(AfterValid(data)) >= 3
       ELSE Len(AfterValid(data)) >= 2 /\ Len(TimeParts(AfterValid(data)[1])) = 2

MaxPassTokens == 4

\* Tokens of the report texts: a lateral clause, a coordinate literal, navaid
\* references, the break flag and other words
PassVocabulary ==
    { Lit_TO,
      <<"N">>,
      <<"O", "F">>,
      <<"N", "2", "0", "5", "0">>,
      <<"N", "1", "4", "2", "9">>,
      <<"W", "0", "9", "0", "5", "3">>,
      <<"5", "N", "W">>,
      <<"I", "C", "A">>,
      <<"<", "b", "r", "e", "a", "k", ">">>,
      <<"T", "U", "R", "B">> }

\* The functions of the three passes
PassNames == {"_bounds_from_latterals", "_coords_from_text", "_coords_from_navaids"}

\* The pattern of a pass
PassPattern(name) ==
    IF name = "_bounds_from_latterals" THEN "latteral"
    ELSE IF name = "_coords_from_text" THEN "coord"
    ELSE "navaid"

PassInit ==
    /\ callPc = "start"
    /\ callFn \in PassNames
    /\ callArg \in ListsUpTo(PassVocabulary, MaxPassTokens)
    /\ callOut = None
    /\ SanOff
    /\ MgrOff
    /\ PathOff
    /\ AltOff
    /\ MovOff
    /\ ObsOff

\* One pass is called on the text of the tokens: the text it gives to
\* finditer, and what it returns
CallPass(name, searched, result) ==
    /\ callPc = "start"
    /\ callFn = name
    /\ callOut' = [searched |-> searched, result |-> result]
    /\ callPc' = "done"
    /\ UNCHANGED <<callFn, callArg, sanVars, mgrVars, pathVars, altVars, movVars, obsVars>>

\* _bounds calls _bounds_from_latterals(report, start)
CallBoundsFromLatterals ==
    CallPass("_bounds_from_latterals", PreBreak(Join(callArg)),
             BoundsFromLatterals(Join(callArg), -1))

\* _bounds calls _coords_from_text(report, start)
CallCoordsFromText ==
    CallPass("_coords_from_text", PreBreak(Join(callArg)), CoordsFromText(Join(callArg), -1))

\* _bounds calls _coords_from_navaids(report, start)
CallCoordsFromNavaids ==
    CallPass("_coords_from_navaids", PreBreak(Join(callArg)),
             CoordsFromNavaids(Join(callArg), -1))

PassNext ==
    \/ CallBoundsFromLatterals
    \/ CallCoordsFromText
    \/ CallCoordsFromNavaids

SpecPass == PassInit /\ [][PassNext]_vars

\* The text before the first break marker, the whole text when it has none
BeforeBreak(report) ==
    IF Find(report, Lit_Break) = -1 THEN report ELSE Take(report, Find(report, Lit_Break))

\* The pass returned (the navaid pass raises when an ident is not known)
PassReturned == callFn = "_coords_from_navaids" => callOut.result.ok

\* C16: each of the three passes searches the report text before the first
\* break marker, and the whole text when it has none; so without a break
\* marker a coordinate literal, lateral clause or navaid reference that ends
\* the text is matched and extracted like any other: the pass extracts one
\* item for each match of its pattern in that text.
C16_SearchedText ==
    callPc = "done" =>
        /\ callOut.searched = BeforeBreak(Join(callArg))
        /\ PassReturned =>
               Len(callOut.result.items)
                   = Len(FindIter(PassPattern(callFn), BeforeBreak(Join(callArg))))

====
